---- MODULE Spec2Model ----
(***************************************************************************)
(* ccnping: the probe session of src/ccnping.c (main's run loop, do_ping,  *)
(* incoming_content, the pending table, the statistics accumulator and     *)
(* the interrupt handler) and the responder of src/ccnpingserver.c         *)
(* (incoming_interest, ping_interest_valid, construct_ping_response), each *)
(* with the CCNx library (ccn_run, ccn_schedule, hashtb, ccn_put) as the   *)
(* environment it runs against. A specification runs one of the two        *)
(* programs; the variables of the other keep their initial values.         *)
(***************************************************************************)
EXTENDS Integers, Sequences, FiniteSets, TLC

VARIABLES
    argv,            \* the options given: [c |-> -c value, n |-> -n value], -1 when absent
    client,          \* struct ccn_ping_client: sent, received, total, number
    sta,             \* struct ccn_ping_statistics: sent, received, min, max, tsum, tsum2
    ccn_ping_table,  \* client.ccn_ping_table: name |-> struct ccn_ping_entry
    h,               \* client.h: the expressed Interests (indexes of expressed) awaiting an upcall
    expressed,       \* the calls of ccn_express_interest, in order: [name, res]
    delivered,       \* the upcalls ccn_run has made: [id, kind, name], in order
    event,           \* client.event: the time (microseconds) do_ping is scheduled at, or NoEvent
    now,             \* the wall clock read by gettimeofday, a struct timeval
    res,             \* main's res: the status of the last ccn_run
    pc,              \* where main is
    log,             \* the lines print_log and fprintf have written
    stats_out,       \* the reports print_statistics has written
    server,          \* struct ccn_ping_server: count, expire
    put,             \* the calls of ccn_put, in order: [data, res]
    returned         \* the upcalls incoming_interest has handled: [kind, name, ret], in order

client_vars == <<argv, client, sta, ccn_ping_table, h, expressed, delivered, event,
                 now, res, pc, log, stats_out>>

server_vars == <<server, put, returned>>

vars == <<client_vars, server_vars>>

\* ccnpingserver is not running: its struct initializer, nothing sent.
ServerNotStarted ==
    /\ server = [count |-> 0, expire |-> 1]
    /\ put = <<>>
    /\ returned = <<>>

(***************************************************************************)
(* Bounds of the model.                                                    *)
(***************************************************************************)
\* The largest -c value tried, and the cap on probes sent when -c is absent.
MaxSent == 2
\* random() is drawn from 0..RandomMax.
RandomMax == 1
\* The clock advances at most MaxTicks times, by TickMs milliseconds each.
MaxTicks == 2
TickMs == 500

\* At most MaxSamples responses are fed to the handler, with round-trip
\* times of -1..MaxRtt clock ticks.
MaxSamples == 3
MaxRtt == 3

\* The responder handles at most MaxInterests upcalls, with -x values of
\* 1..MaxExpire.
MaxInterests == 2
MaxExpire == 2

(***************************************************************************)
(* Program constants.                                                      *)
(***************************************************************************)
\* sta.min = INT_MAX
INT_MAX == 2147483647
\* The range of long int number (the 32-bit long of an ILP32 build).
LONG_MAX == 2147483647
LONG_MIN == (-LONG_MAX) - 1
\* .interval = 1, returned by do_ping as interval * 1000000 microseconds.
IntervalUsec == 1000000
\* The value of event when do_ping is not scheduled.
NoEvent == -1

HT_OLD_ENTRY == "HT_OLD_ENTRY"
HT_NEW_ENTRY == "HT_NEW_ENTRY"

CCN_UPCALL_FINAL == "CCN_UPCALL_FINAL"
CCN_UPCALL_CONTENT == "CCN_UPCALL_CONTENT"
CCN_UPCALL_INTEREST_TIMED_OUT == "CCN_UPCALL_INTEREST_TIMED_OUT"
\* Any other kind (CCN_UPCALL_CONTENT_UNVERIFIED, CCN_UPCALL_CONTENT_BAD, ...).
CCN_UPCALL_OTHER == "CCN_UPCALL_OTHER"

(***************************************************************************)
(* Time.                                                                   *)
(***************************************************************************)
Usec(tv) == tv.tv_sec * 1000000 + tv.tv_usec

Timeval(usec) == [tv_sec |-> usec \div 1000000, tv_usec |-> usec % 1000000]

\* rtt of incoming_content, in milliseconds; the clock moves in whole
\* milliseconds, so the division by 1000 is exact.
Rtt(t, send_time) ==
    (t.tv_sec - send_time.tv_sec) * 1000 + (t.tv_usec - send_time.tv_usec) \div 1000

(***************************************************************************)
(* Names. The name of a probe is client.prefix followed by the component   *)
(* sprintf(rnumstr, "%ld", rnum).                                          *)
(***************************************************************************)
Digit(d) == <<"0", "1", "2", "3", "4", "5", "6", "7", "8", "9">>[d + 1]

RECURSIVE DecimalDigits(_)
DecimalDigits(n) ==
    IF n < 10 THEN <<Digit(n)>>
    ELSE Append(DecimalDigits(n \div 10), Digit(n % 10))

sprintf_ld(n) == IF n < 0 THEN <<"-">> \o DecimalDigits(0 - n) ELSE DecimalDigits(n)

\* client.prefix: the given prefix with the "ping" component appended.
prefix == <<"ping">>

ccn_name_append_str(name, str) == Append(name, str)

ProbeName(rnum) == ccn_name_append_str(prefix, sprintf_ld(rnum))

(***************************************************************************)
(* The pending table (hashtb).                                             *)
(***************************************************************************)
\* A fresh hashtb entry, before add_ccn_ping_entry fills it.
NewEntry == [number |-> 0, send_time |-> Timeval(0)]

hashtb_n(table) == Cardinality(DOMAIN table)

\* hashtb_seek finds the entry of key or adds a fresh one.
hashtb_seek(table, key) ==
    IF key \in DOMAIN table
    THEN [res |-> HT_OLD_ENTRY, table |-> table]
    ELSE [res |-> HT_NEW_ENTRY, table |-> (key :> NewEntry) @@ table]

\* Fault injection: a hashtb_delete that empties the table.
hashtb_delete_all(table, key) == <<>>

hashtb_delete(table, key) == [k \in DOMAIN table \ {key} |-> table[k]]

\* Fault injection: get_ccn_ping_entry without its assert.
get_ccn_ping_entry_unchecked(table, name) ==
    LET s == hashtb_seek(table, name)
    IN  [ok |-> TRUE, entry |-> s.table[name], table |-> s.table]

\* Fault injection: a get_ccn_ping_entry that takes responses to arrive in
\* the order of the probes and returns the entry sent first.
get_ccn_ping_entry_first(table, name) ==
    LET s == hashtb_seek(table, name)
        first == CHOOSE k \in DOMAIN s.table :
                    \A j \in DOMAIN s.table :
                        Usec(s.table[k].send_time) <= Usec(s.table[j].send_time)
    IN  [ok |-> s.res = HT_OLD_ENTRY, entry |-> s.table[first], table |-> s.table]

\* get_ccn_ping_entry: ok is its assert(res == HT_OLD_ENTRY).
get_ccn_ping_entry(table, name) ==
    LET s == hashtb_seek(table, name)
    IN  [ok |-> s.res = HT_OLD_ENTRY, entry |-> s.table[name], table |-> s.table]

\* Fault injection: remove_ccn_ping_entry without its hashtb_delete.
remove_ccn_ping_entry_kept(table, name) ==
    LET s == hashtb_seek(table, name)
    IN  [ok |-> s.res = HT_OLD_ENTRY, table |-> s.table]

\* remove_ccn_ping_entry: ok is its assert(res == HT_OLD_ENTRY).
remove_ccn_ping_entry(table, name) ==
    LET s == hashtb_seek(table, name)
    IN  [ok |-> s.res = HT_OLD_ENTRY, table |-> hashtb_delete(s.table, name)]

\* add_ccn_ping_entry: ok is its assert(res == HT_NEW_ENTRY).
add_ccn_ping_entry(table, name, number, t) ==
    LET s == hashtb_seek(table, name)
    IN  [ok |-> s.res = HT_NEW_ENTRY,
         table |-> IF s.res = HT_NEW_ENTRY
                   THEN [s.table EXCEPT ![name] = [number |-> number, send_time |-> t]]
                   ELSE s.table]

(***************************************************************************)
(* Output.                                                                 *)
(***************************************************************************)
Line(type, number, rtt) == [type |-> type, number |-> number, rtt |-> rtt]

\* printf("%.1f") of the double num * 100 / den, in tenths: the nearest tenth,
\* the even one of two equally near.
printf_1f_percent(num, den) ==
    LET n == num * 1000
        q == n \div den
        r == n % den
    IN  IF 2 * r > den \/ (2 * r = den /\ q % 2 = 1) THEN q + 1 ELSE q

\* Fault injection: the loss computed from the answered probes.
lost_of_received(sent, received) == printf_1f_percent(received, sent)

\* lost = (double)(sta.sent - sta.received) * 100 / sta.sent, as printed.
lost(sent, received) == printf_1f_percent(sent - received, sent)

\* print_statistics: the lines of the report after its header. The first is
\* printed when sta.sent > 0, the second when sta.received > 0; avg and mdev
\* of the second are printed from tsum, tsum2 and received.
print_statistics(s) ==
    [transmitted |->
        IF s.sent > 0
        THEN <<[sent |-> s.sent, received |-> s.received,
                lost |-> lost(s.sent, s.received)]>>
        ELSE <<>>,
     rtt |->
        IF s.received > 0
        THEN <<[min |-> s.min, max |-> s.max, tsum |-> s.tsum,
                tsum2 |-> s.tsum2, received |-> s.received]>>
        ELSE <<>>]

(***************************************************************************)
(* The statements of do_ping and incoming_content that change the          *)
(* counters, the statistics and the schedule.                              *)
(***************************************************************************)
\* Fault injection: do_ping without its client->sent ++.
count_sent_forgotten(c) == c

\* Fault injection: incoming_content without its client->received ++.
count_received_forgotten(c) == c

\* client->sent ++ (do_ping) and client->received ++ (incoming_content).
count_sent(c) == [c EXCEPT !.sent = @ + 1]

count_received(c) == [c EXCEPT !.received = @ + 1]

\* Fault injection: do_ping without its sta.sent ++.
sta_sent_forgotten(s) == s

\* sta.sent ++ (do_ping) and sta.received ++ (incoming_content).
sta_sent(s) == [s EXCEPT !.sent = @ + 1]

sta_received(s) == [s EXCEPT !.received = @ + 1]

\* The update of sta.min, sta.max, sta.tsum and sta.tsum2 with one rtt.
record_rtt(s, rtt) ==
    [s EXCEPT !.min = IF rtt < @ THEN rtt ELSE @,
              !.max = IF rtt > @ THEN rtt ELSE @,
              !.tsum = @ + rtt,
              !.tsum2 = @ + rtt * rtt]

\* The number of the next probe: random() when client->number < 0, else
\* client->number.
probe_number(number, rnd) == IF number < 0 THEN rnd ELSE number

\* client->number ++ in sequential mode. At LONG_MAX the increment overflows
\* (undefined behaviour): a wrapping build leaves LONG_MIN.
next_number(number) ==
    IF number < 0 THEN number
    ELSE IF number = LONG_MAX THEN LONG_MIN
    ELSE number + 1

\* Fault injection: a do_ping that inserts the entry only when
\* ccn_express_interest succeeded.
track_probe_if_sent(table, name, number, t, eres) ==
    IF eres < 0 THEN [ok |-> TRUE, table |-> table]
    ELSE add_ccn_ping_entry(table, name, number, t)

\* do_ping inserts the entry whatever ccn_express_interest returned (eres).
track_probe(table, name, number, t, eres) == add_ccn_ping_entry(table, name, number, t)

\* ccn_schedule reschedules an event whose action returned micros > 0: from the
\* time it was scheduled at, or from the current time when it ran later than
\* micros behind.
reschedule(ev, nowusec, micros) ==
    IF nowusec - ev < micros THEN ev + micros ELSE nowusec + micros

\* Fault injection: a loop condition that does not look at the pending table.
LoopCondition_no_table ==
    res >= 0 /\ (client.total <= 0 \/ client.sent < client.total)

\* Fault injection: a loop condition that compares sent with <=.
LoopCondition_off_by_one ==
    res >= 0 /\ (client.total <= 0 \/ client.sent <= client.total
                    \/ hashtb_n(ccn_ping_table) > 0)

\* The condition of main's while loop.
LoopCondition ==
    res >= 0 /\ (client.total <= 0 \/ client.sent < client.total
                    \/ hashtb_n(ccn_ping_table) > 0)

\* main's guard of ccn_schedule_run.
ScheduleCondition == client.total <= 0 \/ client.sent < client.total

(***************************************************************************)
(* incoming_content(selfp, kind, info): the client, statistics, table and  *)
(* log it leaves, and ret: the upcall result, or the assertion that failed.*)
(***************************************************************************)
ASSERT_ADD == "assert in add_ccn_ping_entry"
ASSERT_GET == "assert in get_ccn_ping_entry"
ASSERT_REMOVE == "assert in remove_ccn_ping_entry"
TRAP_OVERFLOW == "overflow trap in do_ping"

Aborted == {ASSERT_ADD, ASSERT_GET, ASSERT_REMOVE, TRAP_OVERFLOW}

incoming_content(kind, name, c, s, table, t, lg) ==
    CASE kind = CCN_UPCALL_FINAL ->
            [client |-> c, sta |-> s, table |-> table, log |-> lg,
             ret |-> "CCN_UPCALL_RESULT_OK"]
      [] kind = CCN_UPCALL_CONTENT ->
            LET c1 == count_received(c)
                s1 == sta_received(s)
                g == get_ccn_ping_entry(table, name)
                rtt == Rtt(t, g.entry.send_time)
                r == remove_ccn_ping_entry(g.table, name)
            IN  IF ~g.ok
                THEN [client |-> c1, sta |-> s1, table |-> g.table, log |-> lg,
                      ret |-> ASSERT_GET]
                ELSE [client |-> c1, sta |-> record_rtt(s1, rtt), table |-> r.table,
                      log |-> Append(lg, Line("content", g.entry.number, rtt)),
                      ret |-> IF r.ok THEN "CCN_UPCALL_RESULT_OK" ELSE ASSERT_REMOVE]
      [] kind = CCN_UPCALL_INTEREST_TIMED_OUT ->
            LET g == get_ccn_ping_entry(table, name)
                r == remove_ccn_ping_entry(g.table, name)
            IN  IF ~g.ok
                THEN [client |-> c, sta |-> s, table |-> g.table, log |-> lg,
                      ret |-> ASSERT_GET]
                ELSE [client |-> c, sta |-> s, table |-> r.table,
                      log |-> Append(lg, Line("timeout", g.entry.number, 0)),
                      ret |-> IF r.ok THEN "CCN_UPCALL_RESULT_OK" ELSE ASSERT_REMOVE]
      [] OTHER ->
            [client |-> c, sta |-> s, table |-> table,
             log |-> Append(lg, Line("unexpected", 0, 0)),
             ret |-> "CCN_UPCALL_RESULT_ERR"]

(***************************************************************************)
(* The state after main has parsed the options, connected and scheduled    *)
(* do_ping at the current time (the clock reads one tick past a second).   *)
(***************************************************************************)
Init ==
    /\ argv \in [c : {-1} \cup (1..MaxSent), n : {-1, 0, LONG_MAX}]
    /\ client = [sent |-> 0, received |-> 0, total |-> argv.c, number |-> argv.n]
    /\ sta = [sent |-> 0, received |-> 0, min |-> INT_MAX, max |-> 0,
              tsum |-> 0, tsum2 |-> 0]
    /\ ccn_ping_table = <<>>
    /\ h = {}
    /\ expressed = <<>>
    /\ delivered = <<>>
    /\ now = Timeval(TickMs * 1000)
    /\ event = Usec(now)
    /\ res = 0
    /\ pc = "loop"
    /\ log = <<>>
    /\ stats_out = <<>>
    /\ ServerNotStarted

(***************************************************************************)
(* main: the test of the while loop.                                       *)
(***************************************************************************)
main_loop ==
    /\ pc = "loop"
    /\ pc' = IF LoopCondition
             THEN (IF ScheduleCondition THEN "sched" ELSE "run")
             ELSE "done"
    /\ UNCHANGED <<argv, client, sta, ccn_ping_table, h, expressed, delivered,
                   event, now, res, log, stats_out>>
    /\ UNCHANGED server_vars

(***************************************************************************)
(* do_ping(sched, clienth, ev, flags), run by ccn_schedule_run. rnd is the *)
(* value of random(), eres the result of ccn_express_interest, tracked     *)
(* whether the transport holds the Interest although expressing it failed, *)
(* trap whether the build traps on signed overflow.                        *)
(***************************************************************************)
do_ping(rnd, eres, tracked, trap) ==
    IF client.total >= 0 /\ client.sent >= client.total
    THEN /\ event' = NoEvent
         /\ pc' = "run"
         /\ UNCHANGED <<client, sta, ccn_ping_table, h, expressed, log>>
    ELSE LET rnum == probe_number(client.number, rnd)
             name == ProbeName(rnum)
             a == track_probe(ccn_ping_table, name, rnum, now, eres)
             c1 == [client EXCEPT !.number = next_number(@)]
         IN  IF client.number = LONG_MAX /\ trap
             THEN /\ pc' = TRAP_OVERFLOW
                  /\ UNCHANGED <<client, sta, ccn_ping_table, h, expressed, log, event>>
             ELSE /\ expressed' = Append(expressed, [name |-> name, res |-> eres])
                  /\ h' = IF eres >= 0 \/ tracked
                          THEN h \cup {Len(expressed) + 1} ELSE h
                  /\ ccn_ping_table' = a.table
                  /\ IF ~a.ok
                     THEN /\ pc' = ASSERT_ADD
                          /\ client' = c1
                          /\ UNCHANGED <<sta, log, event>>
                     ELSE /\ client' = count_sent(c1)
                          /\ sta' = sta_sent(sta)
                          /\ log' = IF eres < 0
                                    THEN Append(log, Line("failed", rnum, 0))
                                    ELSE log
                          /\ event' = reschedule(event, Usec(now), IntervalUsec)
                          /\ pc' = "run"

\* The do_ping event is due.
EventDue == event # NoEvent /\ event <= Usec(now)

(***************************************************************************)
(* ccn_schedule_run(client.sched): runs do_ping when it is due.            *)
(***************************************************************************)
ccn_schedule_run ==
    /\ pc = "sched"
    /\ client.total < 0 => client.sent < MaxSent
    /\ IF EventDue
       THEN \E rnd \in 0..RandomMax, eres \in {0, -1}, tracked, trap \in BOOLEAN :
                do_ping(rnd, eres, tracked, trap)
       ELSE /\ pc' = "run"
            /\ UNCHANGED <<client, sta, ccn_ping_table, h, expressed, log, event>>
    /\ UNCHANGED <<argv, delivered, now, res, stats_out>>
    /\ UNCHANGED server_vars

(***************************************************************************)
(* ccn_run(client.h, 10): while it polls, time passes, and the transport   *)
(* makes the upcall of an expressed Interest (its content or its timeout); *)
(* then it returns its status.                                             *)
(***************************************************************************)
Upcall(id, kind, name) ==
    LET r == incoming_content(kind, name, client, sta, ccn_ping_table, now, log)
    IN  /\ delivered' = Append(delivered, [id |-> id, kind |-> kind, name |-> name])
        /\ client' = r.client
        /\ sta' = r.sta
        /\ ccn_ping_table' = r.table
        /\ log' = r.log
        /\ pc' = IF r.ret \in Aborted THEN r.ret ELSE pc
        /\ UNCHANGED <<argv, expressed, event, now, res, stats_out>>

ccn_run_upcall ==
    /\ pc = "run"
    /\ \E i \in h, kind \in {CCN_UPCALL_CONTENT, CCN_UPCALL_INTEREST_TIMED_OUT} :
          /\ h' = h \ {i}
          /\ Upcall(i, kind, expressed[i].name)
    /\ UNCHANGED server_vars

Tick ==
    /\ pc = "run"
    /\ Usec(now) < (MaxTicks + 1) * TickMs * 1000
    /\ now' = Timeval(Usec(now) + TickMs * 1000)
    /\ UNCHANGED <<argv, client, sta, ccn_ping_table, h, expressed, delivered,
                   event, res, pc, log, stats_out>>
    /\ UNCHANGED server_vars

ccn_run_return ==
    /\ pc = "run"
    /\ \E status \in {0, -1} : res' = status
    /\ pc' = "loop"
    /\ UNCHANGED <<argv, client, sta, ccn_ping_table, h, expressed, delivered,
                   event, now, log, stats_out>>
    /\ UNCHANGED server_vars

(***************************************************************************)
(* handle_interrupt(sig_no): SIGINT between two handlers prints the report *)
(* and kills the process.                                                  *)
(***************************************************************************)
\* Fault injection: the handler prints the report and returns to the
\* interrupted code instead of ending the process.
handle_interrupt_returns ==
    /\ pc \in {"loop", "sched", "run", "done"}
    /\ stats_out = <<>>
    /\ stats_out' = Append(stats_out, print_statistics(sta))
    /\ UNCHANGED <<argv, client, sta, ccn_ping_table, h, expressed, delivered,
                   event, now, res, pc, log>>
    /\ UNCHANGED server_vars

handle_interrupt ==
    /\ pc \in {"loop", "sched", "run", "done"}
    /\ stats_out' = Append(stats_out, print_statistics(sta))
    /\ pc' = "killed"
    /\ UNCHANGED <<argv, client, sta, ccn_ping_table, h, expressed, delivered,
                   event, now, res, log>>
    /\ UNCHANGED server_vars

(***************************************************************************)
(* main after the loop: ccn_schedule_destroy, ccn_destroy (the closure     *)
(* gets CCN_UPCALL_FINAL), print_statistics, return 0.                     *)
(***************************************************************************)
main_finish ==
    /\ pc = "done"
    /\ LET r == incoming_content(CCN_UPCALL_FINAL, prefix, client, sta,
                                 ccn_ping_table, now, log)
       IN  /\ client' = r.client
           /\ sta' = r.sta
           /\ ccn_ping_table' = r.table
           /\ log' = r.log
           /\ stats_out' = Append(stats_out, print_statistics(r.sta))
    /\ event' = NoEvent
    /\ h' = {}
    /\ pc' = "exited"
    /\ UNCHANGED <<argv, expressed, delivered, now, res>>
    /\ UNCHANGED server_vars

(***************************************************************************)
(* A transport outside its contract: once in a run, an upcall of any kind  *)
(* for any name, whether or not an Interest of that name is expressed.     *)
(***************************************************************************)
Names == {ProbeName(n) : n \in (0..RandomMax) \cup {LONG_MAX}}

Spurious == Cardinality({i \in 1..Len(delivered) : delivered[i].id = 0})

ccn_run_upcall_any ==
    /\ pc = "run"
    /\ Spurious = 0
    /\ \E kind \in {CCN_UPCALL_CONTENT, CCN_UPCALL_INTEREST_TIMED_OUT, CCN_UPCALL_OTHER},
          name \in Names :
          /\ Upcall(0, kind, name)
          /\ UNCHANGED h
    /\ UNCHANGED server_vars

Next ==
    \/ main_loop
    \/ ccn_schedule_run
    \/ ccn_run_upcall
    \/ Tick
    \/ ccn_run_return
    \/ handle_interrupt
    \/ main_finish

Spec == Init /\ [][Next]_vars

NextAnyTransport == Next \/ ccn_run_upcall_any

SpecAnyTransport == Init /\ [][NextAnyTransport]_vars

(***************************************************************************)
(* The CCN_UPCALL_CONTENT case of incoming_content one statement at a      *)
(* time. SIGINT is asynchronous: handle_interrupt runs between any two     *)
(* statements of the program. While the handler runs, pc names the line of *)
(* its next statement; its locals are determined by the state: the upcall  *)
(* is the last of delivered, entry is the entry of that name, and rtt is   *)
(* computed from now, which was read as the handler was entered.           *)
(***************************************************************************)
ContentStatements ==
    {"content:205", "content:206", "content:208", "content:214", "content:216",
     "content:218", "content:219", "content:221", "content:224"}

\* if (rtt < sta.min) sta.min = rtt;
record_min(s, rtt) == [s EXCEPT !.min = IF rtt < @ THEN rtt ELSE @]

\* if (rtt > sta.max) sta.max = rtt;
record_max(s, rtt) == [s EXCEPT !.max = IF rtt > @ THEN rtt ELSE @]

\* sta.tsum += rtt;
record_tsum(s, rtt) == [s EXCEPT !.tsum = @ + rtt]

\* sta.tsum2 += rtt * rtt;
record_tsum2(s, rtt) == [s EXCEPT !.tsum2 = @ + rtt * rtt]

\* ccn_run makes the content upcall of an expressed Interest.
content_upcall ==
    /\ pc = "run"
    /\ \E i \in h :
          /\ h' = h \ {i}
          /\ delivered' = Append(delivered, [id |-> i, kind |-> CCN_UPCALL_CONTENT,
                                             name |-> expressed[i].name])
    /\ pc' = "content:205"
    /\ UNCHANGED <<argv, client, sta, ccn_ping_table, expressed, event, now, res,
                   log, stats_out>>
    /\ UNCHANGED server_vars

\* The next statement of the handler.
content_statement ==
    /\ pc \in ContentStatements
    /\ LET name == delivered[Len(delivered)].name
           g == get_ccn_ping_entry(ccn_ping_table, name)
           rtt == Rtt(now, g.entry.send_time)
           r == remove_ccn_ping_entry(ccn_ping_table, name)
       IN  CASE pc = "content:205" ->
                    /\ client' = count_received(client)
                    /\ pc' = "content:206"
                    /\ UNCHANGED <<sta, ccn_ping_table, log>>
             [] pc = "content:206" ->
                    /\ sta' = sta_received(sta)
                    /\ pc' = "content:208"
                    /\ UNCHANGED <<client, ccn_ping_table, log>>
             [] pc = "content:208" ->
                    /\ ccn_ping_table' = g.table
                    /\ pc' = IF g.ok THEN "content:214" ELSE ASSERT_GET
                    /\ UNCHANGED <<client, sta, log>>
             [] pc = "content:214" ->
                    /\ sta' = record_min(sta, rtt)
                    /\ pc' = "content:216"
                    /\ UNCHANGED <<client, ccn_ping_table, log>>
             [] pc = "content:216" ->
                    /\ sta' = record_max(sta, rtt)
                    /\ pc' = "content:218"
                    /\ UNCHANGED <<client, ccn_ping_table, log>>
             [] pc = "content:218" ->
                    /\ sta' = record_tsum(sta, rtt)
                    /\ pc' = "content:219"
                    /\ UNCHANGED <<client, ccn_ping_table, log>>
             [] pc = "content:219" ->
                    /\ sta' = record_tsum2(sta, rtt)
                    /\ pc' = "content:221"
                    /\ UNCHANGED <<client, ccn_ping_table, log>>
             [] pc = "content:221" ->
                    /\ log' = Append(log, Line("content", g.entry.number, rtt))
                    /\ pc' = "content:224"
                    /\ UNCHANGED <<client, sta, ccn_ping_table>>
             [] pc = "content:224" ->
                    /\ ccn_ping_table' = r.table
                    /\ pc' = IF r.ok THEN "run" ELSE ASSERT_REMOVE
                    /\ UNCHANGED <<client, sta, log>>
    /\ UNCHANGED <<argv, h, expressed, delivered, event, now, res, stats_out>>
    /\ UNCHANGED server_vars

\* ccn_run makes the timeout upcall of an expressed Interest.
timeout_upcall ==
    /\ pc = "run"
    /\ \E i \in h :
          /\ h' = h \ {i}
          /\ Upcall(i, CCN_UPCALL_INTEREST_TIMED_OUT, expressed[i].name)
    /\ UNCHANGED server_vars

\* SIGINT at any point of the program.
handle_interrupt_async ==
    /\ pc \in {"loop", "sched", "run", "done"} \cup ContentStatements
    /\ stats_out' = Append(stats_out, print_statistics(sta))
    /\ pc' = "killed"
    /\ UNCHANGED <<argv, client, sta, ccn_ping_table, h, expressed, delivered,
                   event, now, res, log>>
    /\ UNCHANGED server_vars

NextStatements ==
    \/ main_loop
    \/ ccn_schedule_run
    \/ content_upcall
    \/ content_statement
    \/ timeout_upcall
    \/ Tick
    \/ ccn_run_return
    \/ handle_interrupt_async
    \/ main_finish

SpecStatements == Init /\ [][NextStatements]_vars

(***************************************************************************)
(* main from its first statement: the struct initializers, then getopt.    *)
(* argv holds the options given and the values atol reads from their       *)
(* arguments (-1 where the option is not given).                           *)
(***************************************************************************)
\* Fault injection: main without the test of the -n value.
n_option_any(number) == TRUE

\* case 'n': usage unless client.number >= 0.
n_option_ok(number) == number >= 0

\* case 'c': usage unless client.total > 0.
c_option_ok(total) == total > 0

InitOptions ==
    /\ argv \in [c : (-1)..MaxSent, n : {-2, -1, 0, LONG_MAX}, given : SUBSET {"c", "n"}]
    /\ "c" \notin argv.given => argv.c = -1
    /\ "n" \notin argv.given => argv.n = -1
    /\ client = [sent |-> 0, received |-> 0, total |-> -1, number |-> -1]
    /\ sta = [sent |-> 0, received |-> 0, min |-> INT_MAX, max |-> 0,
              tsum |-> 0, tsum2 |-> 0]
    /\ ccn_ping_table = <<>>
    /\ h = {}
    /\ expressed = <<>>
    /\ delivered = <<>>
    /\ now = Timeval(TickMs * 1000)
    /\ event = NoEvent
    /\ res = 0
    /\ pc = "getopt"
    /\ log = <<>>
    /\ stats_out = <<>>
    /\ ServerNotStarted

\* The getopt loop and the setup up to the while loop: usage() exits with
\* status 1; otherwise do_ping is scheduled at the current time.
main_getopt ==
    /\ pc = "getopt"
    /\ LET c_ok == "c" \in argv.given => c_option_ok(argv.c)
           n_ok == "n" \in argv.given => n_option_ok(argv.n)
       IN  IF c_ok /\ n_ok
           THEN /\ client' = [client EXCEPT !.total = argv.c, !.number = argv.n]
                /\ event' = Usec(now)
                /\ pc' = "loop"
           ELSE /\ pc' = "usage"
                /\ UNCHANGED <<client, event>>
    /\ UNCHANGED <<argv, sta, ccn_ping_table, h, expressed, delivered, now, res,
                   log, stats_out>>
    /\ UNCHANGED server_vars

NextOptions == main_getopt \/ Next

SpecOptions == InitOptions /\ [][NextOptions]_vars

(***************************************************************************)
(* The response handler fed with round-trip times. Each step is a probe    *)
(* tracked at its send time and the content upcall of its response at now. *)
(* rtt is the difference of two gettimeofday readings of the wall clock:   *)
(* it is negative when the clock was set back between the two.             *)
(***************************************************************************)
RttSamples == {k * TickMs : k \in (-1)..MaxRtt}

InitSamples ==
    /\ argv = [c |-> -1, n |-> 0]
    /\ client = [sent |-> 0, received |-> 0, total |-> argv.c, number |-> argv.n]
    /\ sta = [sent |-> 0, received |-> 0, min |-> INT_MAX, max |-> 0,
              tsum |-> 0, tsum2 |-> 0]
    /\ ccn_ping_table = <<>>
    /\ h = {}
    /\ expressed = <<>>
    /\ delivered = <<>>
    /\ now = Timeval(MaxRtt * TickMs * 1000)
    /\ event = NoEvent
    /\ res = 0
    /\ pc = "samples"
    /\ log = <<>>
    /\ stats_out = <<>>
    /\ ServerNotStarted

feed_sample ==
    /\ pc = "samples"
    /\ Len(log) < MaxSamples
    /\ \E rtt \in RttSamples :
          LET number == Len(log)
              name == ProbeName(number)
              send_time == Timeval(Usec(now) - rtt * 1000)
              a == add_ccn_ping_entry(ccn_ping_table, name, number, send_time)
              r == incoming_content(CCN_UPCALL_CONTENT, name, client, sta,
                                    a.table, now, log)
          IN  /\ client' = r.client
              /\ sta' = r.sta
              /\ ccn_ping_table' = r.table
              /\ log' = r.log
    /\ UNCHANGED <<argv, h, expressed, delivered, event, now, res, pc, stats_out>>
    /\ UNCHANGED server_vars

NextSamples == feed_sample

SpecSamples == InitSamples /\ [][NextSamples]_vars

(***************************************************************************)
(* ccnpingserver (src/ccnpingserver.c). The prefix the responder registers *)
(* is the given prefix with the "ping" component appended, as the client's *)
(* prefix. A name component is the sequence of its bytes; NUL is the byte  *)
(* 0.                                                                      *)
(***************************************************************************)
CCN_UPCALL_INTEREST == "CCN_UPCALL_INTEREST"

PING_ACK == "ping ack"

NUL == "NUL"

isspace(ch) == ch \in {" ", "\t", "\n", "\f", "\r"}

isdigit(ch) == \E d \in 0..9 : Digit(d) = ch

DigitValue(ch) == CHOOSE d \in 0..9 : Digit(d) = ch

RECURSIVE DecimalValue(_)
\* The value of a sequence of digits; the numerals of the model have fewer
\* digits than LONG_MAX, so no value is out of the range of long.
DecimalValue(digits) ==
    IF digits = <<>> THEN 0
    ELSE 10 * DecimalValue(SubSeq(digits, 1, Len(digits) - 1))
         + DigitValue(digits[Len(digits)])

\* strtol(str, &end, 10) on the bytes str followed by a byte 0: white space
\* is skipped, then an optional sign and the decimal digits are read. end is
\* the number of bytes before *end: those read, or none when there is no
\* digit to convert.
strtol(str) ==
    LET n == Len(str)
        ws == CHOOSE k \in 0..n :
                 /\ \A i \in 1..k : isspace(str[i])
                 /\ k = n \/ ~isspace(str[k + 1])
        sign == IF ws < n /\ str[ws + 1] \in {"+", "-"} THEN 1 ELSE 0
        first == ws + sign
        last == CHOOSE k \in first..n :
                   /\ \A i \in (first + 1)..k : isdigit(str[i])
                   /\ k = n \/ ~isdigit(str[k + 1])
        value == DecimalValue(SubSeq(str, first + 1, last))
    IN  [number |-> IF sign = 1 /\ str[first] = "-" THEN 0 - value ELSE value,
         end |-> IF last = first THEN 0 ELSE last]

\* The byte at offset end of the bytes str followed by a byte 0.
ByteAt(str, end) == IF end = Len(str) THEN NUL ELSE str[end + 1]

\* ccn_name_split: the number of components of a name.
ccn_name_split(name) == Len(name)

\* ping_interest_valid. The bytes at offset[CCN_PI_B_LastPrefixComponent]
\* + 2 are those of the last component (of fewer than 16 bytes) followed by
\* the closing byte 0 of the ccnb element.
ping_interest_valid(pfx, name) ==
    IF ccn_name_split(name) = ccn_name_split(pfx) + 1
    THEN LET str == name[Len(name)]
             s == strtol(str)
         IN  ByteAt(str, s.end) = NUL
    ELSE FALSE

\* Fault injection: a response without FreshnessSeconds.
construct_ping_response_stale(name, expire, signed) ==
    [res |-> IF signed THEN 0 ELSE -1,
     data |-> IF signed
              THEN <<[name |-> name, content |-> PING_ACK, freshness |-> <<>>]>>
              ELSE <<>>]

\* construct_ping_response: the Data signed with the name of the Interest,
\* FreshnessSeconds when expire >= 0, and the content PING_ACK; signed is
\* whether ccn_sign_content succeeds. data is the charbuf: empty or the Data.
construct_ping_response(name, expire, signed) ==
    [res |-> IF signed THEN 0 ELSE -1,
     data |-> IF signed
              THEN <<[name |-> name, content |-> PING_ACK,
                      freshness |-> IF expire >= 0 THEN <<expire>> ELSE <<>>]>>
              ELSE <<>>]

\* Fault injection: an incoming_interest that counts every Interest.
incoming_interest_counts_all(kind, name, srv, signed, put_res) ==
    IF kind = CCN_UPCALL_INTEREST /\ ping_interest_valid(prefix, name)
    THEN LET c == construct_ping_response(name, srv.expire, signed)
             r == IF c.data = <<>> THEN -1 ELSE put_res
         IN  [server |-> [srv EXCEPT !.count = @ + 1],
              put |-> <<[data |-> c.data, res |-> r]>>,
              ret |-> IF r >= 0 THEN "CCN_UPCALL_RESULT_INTEREST_CONSUMED"
                      ELSE "CCN_UPCALL_RESULT_OK"]
    ELSE [server |-> [srv EXCEPT !.count = IF kind = CCN_UPCALL_INTEREST
                                           THEN @ + 1 ELSE @],
          put |-> <<>>, ret |-> "CCN_UPCALL_RESULT_OK"]

\* incoming_interest: the new server, the call of ccn_put it made if any,
\* and its result. put_res is the result of ccn_put for a Data; ccn_put of
\* an empty buffer fails.
incoming_interest(kind, name, srv, signed, put_res) ==
    IF kind = CCN_UPCALL_INTEREST /\ ping_interest_valid(prefix, name)
    THEN LET c == construct_ping_response(name, srv.expire, signed)
             r == IF c.data = <<>> THEN -1 ELSE put_res
         IN  [server |-> [srv EXCEPT !.count = @ + 1],
              put |-> <<[data |-> c.data, res |-> r]>>,
              ret |-> IF r >= 0 THEN "CCN_UPCALL_RESULT_INTEREST_CONSUMED"
                      ELSE "CCN_UPCALL_RESULT_OK"]
    ELSE [server |-> srv, put |-> <<>>, ret |-> "CCN_UPCALL_RESULT_OK"]

\* The last components of the Interests the responder is sent.
Components ==
    {<<"4", "2">>, <<"4", "2", "a", "b", "c">>, <<>>, <<"-", "4", "2">>,
     <<"+", "4", "2">>, <<" ", "4", "2">>, <<"4", "2", " ">>, <<"a">>, <<"-">>,
     <<" ">>, <<"4", "2", NUL, "a">>}

\* The names under the registered prefix: the prefix itself, the prefix and
\* one component, the prefix and two components.
InterestNames ==
    {prefix} \cup {Append(prefix, c) : c \in Components}
             \cup {Append(Append(prefix, c), <<"0">>) : c \in {<<"4", "2">>, <<"a">>}}

\* main of ccnpingserver up to ccn_run: -x, when given, is positive.
InitServer ==
    /\ server \in [count : {0}, expire : 1..MaxExpire]
    /\ put = <<>>
    /\ returned = <<>>
    /\ argv = [c |-> -1, n |-> -1]
    /\ client = [sent |-> 0, received |-> 0, total |-> -1, number |-> -1]
    /\ sta = [sent |-> 0, received |-> 0, min |-> INT_MAX, max |-> 0,
              tsum |-> 0, tsum2 |-> 0]
    /\ ccn_ping_table = <<>>
    /\ h = {}
    /\ expressed = <<>>
    /\ delivered = <<>>
    /\ now = Timeval(TickMs * 1000)
    /\ event = NoEvent
    /\ res = 0
    /\ pc = "ccn_run"
    /\ log = <<>>
    /\ stats_out = <<>>

\* ccn_run makes an upcall of the closure in_interest.
server_upcall ==
    /\ pc = "ccn_run"
    /\ Len(returned) < MaxInterests
    /\ \E kind \in {CCN_UPCALL_INTEREST, CCN_UPCALL_OTHER}, name \in InterestNames,
          signed \in BOOLEAN, put_res \in {0, -1} :
          LET r == incoming_interest(kind, name, server, signed, put_res)
          IN  /\ server' = r.server
              /\ put' = put \o r.put
              /\ returned' = Append(returned, [kind |-> kind, name |-> name,
                                               ret |-> r.ret])
    /\ UNCHANGED client_vars

\* ccn_run returns; ccn_destroy makes the CCN_UPCALL_FINAL upcall; exit(0).
server_exit ==
    /\ pc = "ccn_run"
    /\ LET r == incoming_interest(CCN_UPCALL_FINAL, prefix, server, TRUE, 0)
       IN  /\ server' = r.server
           /\ put' = put \o r.put
           /\ returned' = Append(returned, [kind |-> CCN_UPCALL_FINAL,
                                            name |-> prefix, ret |-> r.ret])
    /\ pc' = "exit"
    /\ UNCHANGED <<argv, client, sta, ccn_ping_table, h, expressed, delivered,
                   event, now, res, log, stats_out>>

NextServer == server_upcall \/ server_exit

SpecServer == InitServer /\ [][NextServer]_vars

(***************************************************************************)
(* Vocabulary of the properties.                                           *)
(***************************************************************************)
\* The last element of a non-empty sequence.
Last(seq) == seq[Len(seq)]

\* The step appends one element to the sequence.
Appended(old, new) == Len(new) = Len(old) + 1 /\ SubSeq(new, 1, Len(old)) = old

\* The probes (indexes of expressed) whose upcall has been made.
Handled == {delivered[j].id : j \in 1..Len(delivered)}

\* The transport has kept its contract so far: every upcall was the only
\* one of an Interest that was expressed.
Contract ==
    /\ \A j \in 1..Len(delivered) : delivered[j].id \in 1..Len(expressed)
    /\ \A j, k \in 1..Len(delivered) : delivered[j].id = delivered[k].id => j = k

IsResolution(l) == l.type \in {"content", "timeout"}

\* The "content from" and "timeout from" lines of the log, in order.
Resolutions == SelectSeq(log, IsResolution)

LineOf(kind) == IF kind = CCN_UPCALL_CONTENT THEN "content" ELSE "timeout"

\* The keys of the table without key, each with its entry as in table.
OthersKept(table, table2, key) ==
    /\ DOMAIN table2 = DOMAIN table \ {key}
    /\ \A k \in DOMAIN table2 : table2[k] = table[k]

(***************************************************************************)
(* C1. Under the transport contract every probe is resolved exactly once:  *)
(* no lookup assertion fails; while the process runs, the pending table    *)
(* holds exactly the probes whose upcall has not been handled (the handler *)
(* of an upcall removed the entry); and the "content from"/"timeout from"  *)
(* lines are, in order, one per upcall made, of the upcall's kind and with *)
(* its probe's number, so no probe is logged twice or in both ways.        *)
(***************************************************************************)
C1_ResolvedExactlyOnce ==
    /\ Contract
    /\ pc \notin {ASSERT_GET, ASSERT_REMOVE}
    /\ pc \notin Aborted =>
          /\ DOMAIN ccn_ping_table =
                {expressed[i].name : i \in (1..Len(expressed)) \ Handled}
          /\ Len(Resolutions) = Len(delivered)
          /\ \A j \in 1..Len(delivered) :
                /\ Resolutions[j].type = LineOf(delivered[j].kind)
                /\ ProbeName(Resolutions[j].number) = delivered[j].name

\* Two probes were pending together and resolved out of order, one by content
\* and one by timeout, and the table is empty again.
C1_Witness ==
    /\ Len(delivered) = 2
    /\ delivered[1].id = 2
    /\ delivered[1].kind # delivered[2].kind
    /\ ccn_ping_table = <<>>
    /\ pc = "run"

(***************************************************************************)
(* C2. As claimed: whenever main has left the while loop (and the report   *)
(* is about to be printed), the pending table is empty and, when -c is     *)
(* given, sent >= total -- for every status of ccn_run.                    *)
(***************************************************************************)
C2_Original ==
    pc = "done" =>
        /\ hashtb_n(ccn_ping_table) = 0
        /\ client.total > 0 => client.sent >= client.total

\* C2 as amended: the same, when the last ccn_run did not report an error.
C2_DrainedUnlessPollError ==
    (pc = "done" /\ res >= 0) =>
        /\ hashtb_n(ccn_ping_table) = 0
        /\ client.total > 0
        /\ client.sent >= client.total

\* The loop was left normally after two probes, both resolved.
C2_Witness ==
    /\ pc = "done"
    /\ res >= 0
    /\ client.sent = 2
    /\ Len(delivered) = 2

(***************************************************************************)
(* C3. As claimed: whenever (total is unset or sent >= total) and the      *)
(* pending table is empty, the test of the while loop ends the loop and    *)
(* the run goes on to the statistics report.                               *)
(***************************************************************************)
C3_Original ==
    [][(/\ pc = "loop"
        /\ client.total <= 0 \/ client.sent >= client.total
        /\ hashtb_n(ccn_ping_table) = 0)
       => pc' \in {"done", "killed"}]_vars

\* C3 as amended: the loop ends when total is set, sent >= total and the
\* pending table is empty; with total unset it goes on to the schedule
\* unless ccn_run reported an error.
C3_StopsWhenLimitSetAndDrained ==
    [][/\ (/\ pc = "loop"
           /\ client.total > 0 /\ client.sent >= client.total
           /\ hashtb_n(ccn_ping_table) = 0)
          => pc' \in {"done", "killed"}
       /\ (pc = "loop" /\ client.total <= 0 /\ res >= 0)
          => pc' \in {"sched", "killed"}]_vars

\* The loop was left with the limit reached, nothing pending and no poll
\* error, after a probe was answered.
C3_Witness ==
    /\ pc = "done"
    /\ res >= 0
    /\ client.total > 0
    /\ client.sent >= client.total
    /\ hashtb_n(ccn_ping_table) = 0
    /\ client.received > 0

(***************************************************************************)
(* C4. As claimed, in the form a finite run refutes: with -c N, whenever   *)
(* the client has left the run loop other than by an interrupt or a poll   *)
(* error, it has left it normally: N probes sent, nothing pending, and on  *)
(* exit the report printed exactly once.                                   *)
(***************************************************************************)
C4_Original ==
    (/\ client.total > 0
     /\ pc \notin {"loop", "sched", "run", "killed"}
     /\ res >= 0)
    => /\ pc \in {"done", "exited"}
       /\ client.sent = client.total
       /\ hashtb_n(ccn_ping_table) = 0
       /\ pc = "exited" => Len(stats_out) = 1

C6_Original == pc # ASSERT_ADD

(***************************************************************************)
(* C7. A do_ping whose ccn_express_interest failed (it logs "failed to     *)
(* express") still inserts the entry with the probe's number and the       *)
(* current time, increments client.sent and sta.sent and is rescheduled an *)
(* interval later; and the timeout upcall of such a probe finds its entry, *)
(* logs the timeout with its number and removes the entry, leaving the     *)
(* other entries alone.                                                    *)
(***************************************************************************)
C7_FailedSendIsTracked ==
    [][/\ (Appended(log, log') /\ Last(log').type = "failed") =>
             LET n == Last(log').number
                 name == ProbeName(n)
             IN  /\ name \notin DOMAIN ccn_ping_table
                 /\ name \in DOMAIN ccn_ping_table'
                 /\ ccn_ping_table'[name] = [number |-> n, send_time |-> now]
                 /\ OthersKept(ccn_ping_table', ccn_ping_table, name)
                 /\ client'.sent = client.sent + 1
                 /\ sta'.sent = sta.sent + 1
                 /\ Last(expressed').name = name
                 /\ Last(expressed').res < 0
                 /\ event' \in {event + IntervalUsec, Usec(now) + IntervalUsec}
                 /\ event' > Usec(now)
                 /\ pc' = "run"
       /\ (/\ Appended(delivered, delivered')
           /\ Last(delivered').kind = CCN_UPCALL_INTEREST_TIMED_OUT
           /\ Last(delivered').id \in 1..Len(expressed)
           /\ expressed[Last(delivered').id].res < 0) =>
             LET name == Last(delivered').name
             IN  /\ name \in DOMAIN ccn_ping_table
                 /\ OthersKept(ccn_ping_table, ccn_ping_table', name)
                 /\ log' = Append(log, Line("timeout", ccn_ping_table[name].number, 0))
                 /\ ProbeName(ccn_ping_table[name].number) = name
                 /\ pc' = pc]_vars

\* A probe whose send failed has timed out and its entry is gone.
C7_Witness ==
    \E j \in 1..Len(delivered) :
        /\ delivered[j].kind = CCN_UPCALL_INTEREST_TIMED_OUT
        /\ delivered[j].id \in 1..Len(expressed)
        /\ expressed[delivered[j].id].res < 0
        /\ delivered[j].name \notin DOMAIN ccn_ping_table
        /\ \E i \in 1..Len(log) : log[i].type = "failed"
        /\ pc \notin Aborted

(***************************************************************************)
(* C8. A content or timeout upcall for a name with no entry in the pending *)
(* table ends in the failed assertion of get_ccn_ping_entry, writes no log *)
(* line, and nothing is processed after a failed assertion.                *)
(***************************************************************************)
C8_MissingEntryIsFatal ==
    [][/\ pc \notin Aborted
       /\ (/\ Appended(delivered, delivered')
           /\ Last(delivered').kind \in
                 {CCN_UPCALL_CONTENT, CCN_UPCALL_INTEREST_TIMED_OUT}
           /\ Last(delivered').name \notin DOMAIN ccn_ping_table)
          => (pc' = ASSERT_GET /\ log' = log)]_vars

\* An upcall found no entry for its name and the assertion failed.
C8_Witness ==
    /\ pc = ASSERT_GET
    /\ Len(delivered) > 0
    /\ Last(delivered).kind = CCN_UPCALL_INTEREST_TIMED_OUT

C10_Original ==
    argv.n >= 0 =>
        \A i \in 1..Len(expressed) :
            /\ i - 1 <= LONG_MAX - argv.n
            /\ expressed[i].name = ProbeName(argv.n + (i - 1))

(***************************************************************************)
(* C11. An interrupt between two handlers writes one report and ends the   *)
(* process: the figures of the report are the number of Interests          *)
(* expressed and the number of content upcalls handled so far (its first   *)
(* line is printed when at least one Interest was expressed), the step     *)
(* expresses no Interest and handles no upcall, and no step follows it.    *)
(***************************************************************************)
ContentHandled ==
    Cardinality({j \in 1..Len(delivered) : delivered[j].kind = CCN_UPCALL_CONTENT})

\* The step writes a report that is not the one main writes as it exits.
Interrupted == Len(stats_out') = Len(stats_out) + 1 /\ pc' # "exited"

C11_InterruptReportsAndEnds ==
    [][/\ pc # "killed"
       /\ Interrupted =>
            /\ pc' = "killed"
            /\ Appended(stats_out, stats_out')
            /\ LET t == Last(stats_out').transmitted
               IN  /\ Len(t) = (IF Len(expressed) > 0 THEN 1 ELSE 0)
                   /\ \A i \in 1..Len(t) :
                        /\ t[i].sent = Len(expressed)
                        /\ t[i].received = ContentHandled
            /\ expressed' = expressed
            /\ delivered' = delivered
            /\ log' = log]_vars

\* Interrupted with two probes wanted, two sent, one answered and one pending.
C11_Witness ==
    /\ pc = "killed"
    /\ argv.c = 2
    /\ Len(stats_out) = 1
    /\ Len(Last(stats_out).transmitted) = 1
    /\ Last(stats_out).transmitted[1].sent = 2
    /\ Last(stats_out).transmitted[1].received = 1
    /\ hashtb_n(ccn_ping_table) = 1

(***************************************************************************)
(* C12. As claimed: at every point at which handle_interrupt can run,      *)
(* between two statements of incoming_content included, sta.received is    *)
(* the number of rtt samples accumulated into sta.min, sta.max, sta.tsum   *)
(* and sta.tsum2.                                                          *)
(***************************************************************************)
\* The content upcalls whose handler has returned.
ContentReturned == ContentHandled - (IF pc \in ContentStatements THEN 1 ELSE 0)

\* The samples accumulated by the statement at line: those of the handlers
\* that returned and that of the running handler once it is past the line.
Accumulated(past) == ContentReturned + (IF pc \in past THEN 1 ELSE 0)

InMin == Accumulated({"content:216", "content:218", "content:219", "content:221",
                      "content:224"})

InMax == Accumulated({"content:218", "content:219", "content:221", "content:224"})

InTsum == Accumulated({"content:219", "content:221", "content:224"})

InTsum2 == Accumulated({"content:221", "content:224"})

C12_Original ==
    pc \in {"loop", "sched", "run", "done"} \cup ContentStatements
    => /\ sta.received = InMin
       /\ sta.received = InMax
       /\ sta.received = InTsum
       /\ sta.received = InTsum2

(***************************************************************************)
(* C13. In every report, with E the Interests expressed and A the content  *)
(* upcalls handled: the first line is printed when E > 0 and its loss      *)
(* figure is (E - A) * 100 / E to the nearest tenth, from 0 to 100, 0 when *)
(* A = E and 100 when A = 0; the rtt line is printed exactly when A > 0.   *)
(***************************************************************************)
C13_LossFigure ==
    \A i \in 1..Len(stats_out) :
        LET E == Len(expressed)
            A == ContentHandled
            t == stats_out[i].transmitted
        IN  /\ Len(t) = (IF E > 0 THEN 1 ELSE 0)
            /\ \A k \in 1..Len(t) :
                  LET d == t[k].lost * E - (E - A) * 1000
                  IN  /\ 2 * d <= E /\ 2 * (0 - d) <= E
                      /\ t[k].lost \in 0..1000
                      /\ A = E => t[k].lost = 0
                      /\ A = 0 => t[k].lost = 1000
            /\ Len(stats_out[i].rtt) = (IF A > 0 THEN 1 ELSE 0)

\* A report of two probes, one answered: 50.0% packet loss and an rtt line.
C13_Witness ==
    /\ Len(stats_out) = 1
    /\ Len(stats_out[1].transmitted) = 1
    /\ stats_out[1].transmitted[1].sent = 2
    /\ stats_out[1].transmitted[1].lost = 500
    /\ Len(stats_out[1].rtt) = 1

(***************************************************************************)
(* C18. As claimed: with a valid -c or none, a -n value that is not        *)
(* negative starts the session with sequential numbering from that value,  *)
(* and a negative -n value starts it with random numbering instead of      *)
(* ending in the usage error.                                              *)
(***************************************************************************)
NumberGiven == pc # "getopt" /\ "n" \in argv.given /\ ("c" \in argv.given => argv.c > 0)

\* The probes sent so far are numbered first, first + 1, ... up to LONG_MAX.
SequentialFrom(first) ==
    \A i \in 1..Len(expressed) :
        i - 1 <= LONG_MAX - first => expressed[i].name = ProbeName(first + (i - 1))

C18_Original ==
    NumberGiven
    => /\ pc # "usage"
       /\ argv.n >= 0 => SequentialFrom(argv.n)
       /\ argv.n < 0 => client.number < 0

(***************************************************************************)
(* C18, amended. With a valid -c or none: a -n value that is not negative  *)
(* starts the session with sequential numbering from that value; a         *)
(* negative -n value ends main in usage() before any probe is sent;        *)
(* random numbering is what the session uses when -n is not given.         *)
(***************************************************************************)
C18_NegativeNumberIsUsageError ==
    /\ NumberGiven /\ argv.n >= 0 => pc # "usage" /\ SequentialFrom(argv.n)
    /\ NumberGiven /\ argv.n < 0 => pc = "usage" /\ expressed = <<>>
    /\ pc # "getopt" /\ argv.given = {}
         => /\ pc # "usage"
            /\ client.number = -1
            /\ \A i \in 1..Len(expressed) :
                  \E rnd \in 0..RandomMax : expressed[i].name = ProbeName(rnd)

\* ccnping -n -2: main has ended in usage().
C18_Witness == pc = "usage" /\ argv.given = {"n"} /\ argv.n = -2

(***************************************************************************)
(* C19. As claimed: the accumulator after the handler was fed a sequence   *)
(* of samples is the one after it was fed the same samples in increasing   *)
(* order (so any two orders of one multiset give the same min, max, tsum,  *)
(* tsum2 and received), and after at least one sample min and max are the  *)
(* smallest and the largest sample fed.                                    *)
(***************************************************************************)
\* The samples fed, in order: the rtt of each "content from" line.
Fed == [i \in 1..Len(log) |-> log[i].rtt]

RECURSIVE Aggregate(_)
\* The accumulator after the statements of the handler ran for each sample.
Aggregate(seq) ==
    IF seq = <<>>
    THEN [sent |-> 0, received |-> 0, min |-> INT_MAX, max |-> 0, tsum |-> 0,
          tsum2 |-> 0]
    ELSE record_rtt(sta_received(Aggregate(SubSeq(seq, 1, Len(seq) - 1))),
                    seq[Len(seq)])

OrderIndependent == sta = Aggregate(SortSeq(Fed, LAMBDA a, b : a < b))

C19_Original ==
    pc = "samples"
    => /\ OrderIndependent
       /\ sta.received = Len(Fed)
       /\ Len(Fed) >= 1
            => /\ \E i \in 1..Len(Fed) : sta.min = Fed[i]
               /\ \A i \in 1..Len(Fed) : sta.min <= Fed[i]
               /\ \E i \in 1..Len(Fed) : sta.max = Fed[i]
               /\ \A i \in 1..Len(Fed) : sta.max >= Fed[i]

(***************************************************************************)
(* C20. Every content upcall, for the name X of a pending probe, logs the  *)
(* number of the entry of X and the rtt from the send_time of that entry   *)
(* to now, removes the entry of X and leaves every other entry as it was,  *)
(* however many probes are pending and in whatever order they were sent.   *)
(***************************************************************************)
ContentUpcall ==
    /\ Len(delivered') = Len(delivered) + 1
    /\ Last(delivered').kind = CCN_UPCALL_CONTENT
    /\ Last(delivered').name \in DOMAIN ccn_ping_table

C20_CorrelatedByName ==
    [][ContentUpcall
       => LET X == Last(delivered').name
              entry == ccn_ping_table[X]
          IN  /\ Appended(log, log')
              /\ Last(log').type = "content"
              /\ Last(log').number = entry.number
              /\ Last(log').rtt * 1000 = Usec(now) - Usec(entry.send_time)
              /\ OthersKept(ccn_ping_table, ccn_ping_table', X)
              /\ pc' \notin Aborted]_vars

\* Probes 0 and 1 were sent one after the other; the response to probe 1 was
\* handled first, while probe 0 was pending, and the response to probe 0
\* after it, with the longer rtt.
C20_Witness ==
    /\ Len(delivered) = 2
    /\ delivered[1].id = 2 /\ delivered[1].kind = CCN_UPCALL_CONTENT
    /\ delivered[2].id = 1 /\ delivered[2].kind = CCN_UPCALL_CONTENT
    /\ Len(Resolutions) = 2
    /\ Resolutions[1].number = 1 /\ Resolutions[2].number = 0
    /\ Resolutions[1].rtt < Resolutions[2].rtt
    /\ ccn_ping_table = <<>>

(***************************************************************************)
(* C14. As claimed: an Interest is valid exactly when its name has one     *)
(* component more than the registered prefix and that component is an      *)
(* integer from its first byte to its last: optional white space, an       *)
(* optional sign, at least one decimal digit, and nothing else.            *)
(***************************************************************************)
IsInteger(str) ==
    \E ws \in 0..Len(str), sign \in 0..1 :
        /\ ws + sign < Len(str)
        /\ \A i \in 1..ws : isspace(str[i])
        /\ sign = 1 => str[ws + 1] \in {"+", "-"}
        /\ \A i \in (ws + sign + 1)..Len(str) : isdigit(str[i])

Interests == {i \in 1..Len(returned) : returned[i].kind = CCN_UPCALL_INTEREST}

C14_Original ==
    \A i \in Interests :
        LET name == returned[i].name
        IN  ping_interest_valid(prefix, name)
            <=> /\ Len(name) = Len(prefix) + 1
                /\ IsInteger(name[Len(name)])

(***************************************************************************)
(* C15. As claimed: server.count is the number of responses ccn_put        *)
(* accepted, and the number of upcalls that returned                       *)
(* CCN_UPCALL_RESULT_INTEREST_CONSUMED; an Interest whose ccn_put failed   *)
(* is counted in neither.                                                  *)
(***************************************************************************)
Accepted == {i \in 1..Len(put) : put[i].res >= 0}

Consumed ==
    {i \in 1..Len(returned) : returned[i].ret = "CCN_UPCALL_RESULT_INTEREST_CONSUMED"}

C15_Original ==
    /\ server.count = Cardinality(Accepted)
    /\ server.count = Cardinality(Consumed)

(***************************************************************************)
(* C16. The upcall of an Interest that ping_interest_valid rejects calls   *)
(* ccn_put for nothing, leaves server.count as it was, returns             *)
(* CCN_UPCALL_RESULT_OK (not consumed), and leaves the responder in        *)
(* ccn_run, where it handles the next upcall.                              *)
(***************************************************************************)
InterestUpcall ==
    /\ Len(returned') = Len(returned) + 1
    /\ Last(returned').kind = CCN_UPCALL_INTEREST

C16_InvalidIsIgnored ==
    [][InterestUpcall /\ ~ping_interest_valid(prefix, Last(returned').name)
       => /\ put' = put
          /\ server' = server
          /\ Last(returned').ret = "CCN_UPCALL_RESULT_OK"
          /\ pc' = "ccn_run"]_vars

\* An Interest named by the prefix alone was ignored, and the Interest for
\* ping/42 after it was answered.
C16_Witness ==
    /\ Len(returned) = 2
    /\ returned[1] = [kind |-> CCN_UPCALL_INTEREST, name |-> prefix,
                      ret |-> "CCN_UPCALL_RESULT_OK"]
    /\ returned[2] = [kind |-> CCN_UPCALL_INTEREST,
                      name |-> Append(prefix, <<"4", "2">>),
                      ret |-> "CCN_UPCALL_RESULT_INTEREST_CONSUMED"]
    /\ server.count = 1
    /\ Len(put) = 1

LimitReached == client.total >= 0 /\ client.sent >= client.total

C21_NeverExceedsTotal ==
    /\ [](client.total >= 0
            => client.sent <= client.total /\ Len(expressed) <= client.total)
    /\ [][LimitReached
            => /\ expressed' = expressed
               /\ DOMAIN ccn_ping_table' \subseteq DOMAIN ccn_ping_table
               /\ client'.sent = client.sent
               /\ sta'.sent = sta.sent]_vars

\* With -c 1: the probe was sent, the time of the next do_ping has come and
\* main is back at its loop with the probe still pending.
C21_Witness ==
    /\ client.total = 1
    /\ client.sent = 1
    /\ EventDue
    /\ hashtb_n(ccn_ping_table) = 1
    /\ pc = "loop"

(***************************************************************************)
(* C22. In every state in which the client has not aborted, client.sent is *)
(* client.received plus the number of timeout upcalls handled plus the     *)
(* number of entries of the table; and every probe counted in client.sent  *)
(* is in exactly one of the three: its content upcall was handled, its     *)
(* timeout upcall was handled, or its name is in the table.                *)
(***************************************************************************)
TimeoutsHandled ==
    Cardinality({j \in 1..Len(delivered) :
                    delivered[j].kind = CCN_UPCALL_INTEREST_TIMED_OUT})

\* The upcalls of kind made for probe i.
UpcallsOf(i, kind) ==
    {j \in 1..Len(delivered) : delivered[j].id = i /\ delivered[j].kind = kind}

\* How many of the three hold of probe i.
Accounted(i) ==
    (IF UpcallsOf(i, CCN_UPCALL_CONTENT) # {} THEN 1 ELSE 0)
    + (IF UpcallsOf(i, CCN_UPCALL_INTEREST_TIMED_OUT) # {} THEN 1 ELSE 0)
    + (IF i \notin Handled /\ expressed[i].name \in DOMAIN ccn_ping_table
       THEN 1 ELSE 0)

====
